---- MODULE Spec2Model ----
(***************************************************************************)
(* Keybinding resolution of src/config.rs: the compiled-in default table,  *)
(* the override-file parser (parse_keyfile, to_action, to_key) and the     *)
(* dispatch function Config::map.                                          *)
(*                                                                         *)
(* Strings are sequences of one-character strings, so that lines(), trim(),*)
(* splitn(), starts_with() and the two token matchers work on characters.  *)
(* Option values are <<"None">> and <<"Some", v>>.  A Key is <<"Char", c>>, *)
(* <<"Ctrl", c>>, <<"Alt", c>>, <<"F", n>> or <<name>>; an Action is        *)
(* <<name>> or <<name, payload...>>.  The HashMap<(Mode, Key), Action> is a *)
(* set of entries <<<<mode, key>>, action>>.                                *)
(***************************************************************************)
EXTENDS Integers, Sequences, FiniteSets, TLC

VARIABLES keyfile, readable, buf, result, config, event, mode, ret

vars == <<keyfile, readable, buf, result, config, event, mode, ret>>

\* ---------------------------------------------------------------- bounds
MaxLines == 3
MaxF == 2

\* ------------------------------------------------------- Option<T> values
None == <<"None">>
Some(v) == <<"Some", v>>

\* ------------------------------------------------------------------ Mode
Modes == {"Normal", "Insert"}

\* ------------------------------------------- std string helpers (on chars)
LF == "\n"
CR == "\r"

Whitespace == {" ", "\t", "\n", "\r"}

is_empty(s) == Len(s) = 0

starts_with(s, p) == Len(s) >= Len(p) /\ SubSeq(s, 1, Len(p)) = p

\* index of the first occurrence of character c in s, 0 when there is none
RECURSIVE find_from(_, _, _)
find_from(s, c, i) ==
    IF i > Len(s) THEN 0
    ELSE IF s[i] = c THEN i
    ELSE find_from(s, c, i + 1)

find(s, c) == find_from(s, c, 1)

RECURSIVE trim_start(_)
trim_start(s) ==
    IF Len(s) > 0 /\ s[1] \in Whitespace THEN trim_start(Tail(s)) ELSE s

RECURSIVE trim_end(_)
trim_end(s) ==
    IF Len(s) > 0 /\ s[Len(s)] \in Whitespace
    THEN trim_end(SubSeq(s, 1, Len(s) - 1))
    ELSE s

trim(s) == trim_end(trim_start(s))

\* variant of splitn: str::split, a part for every separator
RECURSIVE split_all(_, _, _)
split_all(n, s, pat) ==
    LET at == find(s, pat) IN
    IF at = 0 THEN <<s>>
    ELSE <<SubSeq(s, 1, at - 1)>>
         \o split_all(n, SubSeq(s, at + 1, Len(s)), pat)

\* str::splitn(n, pat): at most n parts, the last one holds the remainder
RECURSIVE splitn(_, _, _)
splitn(n, s, pat) ==
    LET at == find(s, pat) IN
    IF n = 0 THEN <<>>
    ELSE IF n = 1 \/ at = 0 THEN <<s>>
    ELSE <<SubSeq(s, 1, at - 1)>>
         \o splitn(n - 1, SubSeq(s, at + 1, Len(s)), pat)

\* str::lines(): split at "\n", a "\r" right before the "\n" is dropped, and
\* a final empty piece after the last "\n" is no line
RECURSIVE lines(_)
lines(s) ==
    LET at == find(s, LF) IN
    IF Len(s) = 0 THEN <<>>
    ELSE IF at = 0 THEN <<s>>
    ELSE LET piece == SubSeq(s, 1, at - 1)
             line == IF Len(piece) > 0 /\ piece[Len(piece)] = CR
                     THEN SubSeq(piece, 1, Len(piece) - 1)
                     ELSE piece
         IN  <<line>> \o lines(SubSeq(s, at + 1, Len(s)))

\* ------------------------------------------------------------- to_action
to_action_table ==
    << <<<<"UnselectRet">>, <<"u", "n", "s", "e", "l", "e", "c", "t">>>>,
       <<<<"ScrollUp">>, <<"s", "c", "r", "o", "l", "l", "_", "u", "p">>>>,
       <<<<"ScrollDown">>, <<"s", "c", "r", "o", "l", "l", "_", "d", "o", "w", "n">>>>,
       <<<<"DeleteSelected">>, <<"d", "e", "l", "e", "t", "e">>>>,
       <<<<"SelectUp">>, <<"s", "e", "l", "e", "c", "t", "_", "u", "p">>>>,
       <<<<"SelectDown">>, <<"s", "e", "l", "e", "c", "t", "_", "d", "o", "w", "n">>>>,
       <<<<"SelectLeft">>, <<"s", "e", "l", "e", "c", "t", "_", "l", "e", "f", "t">>>>,
       <<<<"SelectRight">>, <<"s", "e", "l", "e", "c", "t", "_", "r", "i", "g", "h", "t">>>>,
       <<<<"EraseChar">>, <<"e", "r", "a", "s", "e">>>>,
       <<<<"CreateSibling">>, <<"c", "r", "e", "a", "t", "e", "_", "s", "i", "b", "l", "i", "n", "g">>>>,
       <<<<"CreateChild">>, <<"c", "r", "e", "a", "t", "e", "_", "c", "h", "i", "l", "d">>>>,
       <<<<"CreateFreeNode">>, <<"c", "r", "e", "a", "t", "e", "_", "f", "r", "e", "e", "_", "n", "o", "d", "e">>>>,
       <<<<"ExecSelected">>, <<"e", "x", "e", "c", "u", "t", "e">>>>,
       <<<<"DrillDown">>, <<"d", "r", "i", "l", "l", "_", "d", "o", "w", "n">>>>,
       <<<<"PopUp">>, <<"p", "o", "p", "_", "u", "p">>>>,
       <<<<"PrefixJump">>, <<"j", "u", "m", "p">>>>,
       <<<<"ToggleCompleted">>, <<"t", "o", "g", "g", "l", "e", "_", "c", "o", "m", "p", "l", "e", "t", "e", "d">>>>,
       <<<<"ToggleHideCompleted">>, <<"t", "o", "g", "g", "l", "e", "_", "h", "i", "d", "e", "_", "c", "o", "m", "p", "l", "e", "t", "e", "d">>>>,
       <<<<"Arrow">>, <<"a", "r", "r", "o", "w">>>>,
       <<<<"AutoArrange">>, <<"a", "u", "t", "o", "_", "a", "r", "r", "a", "n", "g", "e">>>>,
       <<<<"ToggleCollapsed">>, <<"t", "o", "g", "g", "l", "e", "_", "c", "o", "l", "l", "a", "p", "s", "e", "d">>>>,
       <<<<"Quit">>, <<"q", "u", "i", "t">>>>,
       <<<<"Save">>, <<"s", "a", "v", "e">>>>,
       <<<<"ToggleShowLogs">>, <<"t", "o", "g", "g", "l", "e", "_", "s", "h", "o", "w", "_", "l", "o", "g", "s">>>>,
       <<<<"EnterCmd">>, <<"e", "n", "t", "e", "r", "_", "c", "o", "m", "m", "a", "n", "d">>>>,
       <<<<"FindTask">>, <<"f", "i", "n", "d", "_", "t", "a", "s", "k">>>>,
       <<<<"YankPasteNode">>, <<"y", "a", "n", "k", "_", "p", "a", "s", "t", "e", "_", "n", "o", "d", "e">>>>,
       <<<<"RaiseSelected">>, <<"r", "a", "i", "s", "e", "_", "s", "e", "l", "e", "c", "t", "e", "d">>>>,
       <<<<"LowerSelected">>, <<"l", "o", "w", "e", "r", "_", "s", "e", "l", "e", "c", "t", "e", "d">>>>,
       <<<<"Search">>, <<"s", "e", "a", "r", "c", "h">>>>,
       <<<<"UndoDelete">>, <<"u", "n", "d", "o", "_", "d", "e", "l", "e", "t", "e">>>>,
       <<<<"Help">>, <<"h", "e", "l", "p">>>>,
       <<<<"SelectParent">>, <<"s", "e", "l", "e", "c", "t", "_", "p", "a", "r", "e", "n", "t">>>>,
       <<<<"SelectNextSibling">>, <<"s", "e", "l", "e", "c", "t", "_", "n", "e", "x", "t", "_", "s", "i", "b", "l", "i", "n", "g">>>>,
       <<<<"SelectPrevSibling">>, <<"s", "e", "l", "e", "c", "t", "_", "p", "r", "e", "v", "_", "s", "i", "b", "l", "i", "n", "g">>>> >>

to_action(input) ==
    IF \E i \in 1..Len(to_action_table) : to_action_table[i][2] = input
    THEN Some(to_action_table[CHOOSE i \in 1..Len(to_action_table) :
                                  to_action_table[i][2] = input][1])
    ELSE None

\* ---------------------------------------------------------------- to_key
\* chars().nth(idx), idx counted from 0
extract_key(raw_key, idx) ==
    IF idx + 1 <= Len(raw_key) THEN Some(raw_key[idx + 1]) ELSE None

\* Option::map with a Key constructor
map_key(opt, ctor) == IF opt = None THEN None ELSE Some(<<ctor, opt[2]>>)

\* key.len() is a length in bytes; the characters of the model are ASCII
to_key(raw_key) ==
    CASE raw_key = <<"e", "s", "c">> -> Some(<<"Esc">>)
      [] raw_key = <<"p", "g", "u", "p">> -> Some(<<"PageUp">>)
      [] raw_key = <<"p", "g", "d", "n">> -> Some(<<"PageDown">>)
      [] raw_key = <<"d", "e", "l">> -> Some(<<"Delete">>)
      [] raw_key = <<"b", "a", "c", "k", "s", "p", "a", "c", "e">>
             -> Some(<<"Backspace">>)
      [] raw_key = <<"u", "p">> -> Some(<<"Up">>)
      [] raw_key = <<"d", "o", "w", "n">> -> Some(<<"Down">>)
      [] raw_key = <<"l", "e", "f", "t">> -> Some(<<"Left">>)
      [] raw_key = <<"r", "i", "g", "h", "t">> -> Some(<<"Right">>)
      [] raw_key = <<"s", "p", "a", "c", "e">> -> Some(<<"Char", " ">>)
      [] raw_key = <<"e", "n", "t", "e", "r">> -> Some(<<"Char", "\n">>)
      [] raw_key = <<"t", "a", "b">> -> Some(<<"Char", "\t">>)
      [] OTHER ->
            IF Len(raw_key) = 1 THEN map_key(extract_key(raw_key, 0), "Char")
            ELSE IF starts_with(raw_key, <<"A", "-">>)
                 THEN map_key(extract_key(raw_key, 2), "Alt")
            ELSE IF starts_with(raw_key, <<"C", "-">>)
                 THEN map_key(extract_key(raw_key, 2), "Ctrl")
            ELSE None

\* ------------------------------------------ HashMap<(Mode, Key), Action>
\* variant of insert: an existing entry is kept (entry().or_insert())
insert_keep_first(table, k, v) ==
    IF \E en \in table : en[1] = k THEN table ELSE table \cup {<<k, v>>}

\* HashMap::insert: the entry of an equal key is replaced
insert(table, k, v) == {en \in table : en[1] # k} \cup {<<k, v>>}

\* HashMap::get(..).cloned()
get(table, k) ==
    IF \E en \in table : en[1] = k
    THEN Some((CHOOSE en \in table : en[1] = k)[2])
    ELSE None

\* HashMap::from([(K, V); N]): the pairs are inserted in list order
RECURSIVE from(_)
from(list) ==
    IF Len(list) = 0 THEN {}
    ELSE insert(from(SubSeq(list, 1, Len(list) - 1)),
                list[Len(list)][1], list[Len(list)][2])

\* --------------------------------------------------------- Config::default
default_list ==
    <<<<<<"Normal", <<"Char", "i">>>>, <<"Mode", "Insert">>>>,
      <<<<"Normal", <<"Char", "A">>>>, <<"Mode", "Insert">>>>,
      <<<<"Insert", <<"Esc">>>>, <<"Mode", "Normal">>>>,
      <<<<"Normal", <<"PageUp">>>>, <<"ScrollUp">>>>,
      <<<<"Normal", <<"PageDown">>>>, <<"ScrollDown">>>>,
      <<<<"Normal", <<"Delete">>>>, <<"DeleteSelected">>>>,
      <<<<"Normal", <<"Char", "k">>>>, <<"SelectUp">>>>,
      <<<<"Normal", <<"Char", "j">>>>, <<"SelectDown">>>>,
      <<<<"Normal", <<"Char", "h">>>>, <<"SelectLeft">>>>,
      <<<<"Normal", <<"Char", "l">>>>, <<"SelectRight">>>>,
      <<<<"Insert", <<"Backspace">>>>, <<"EraseChar">>>>,
      <<<<"Normal", <<"F", 1>>>>, <<"PrefixJump">>>>,
      <<<<"Normal", <<"Char", "o">>>>, <<"CreateSibling">>>>,
      <<<<"Normal", <<"Char", "\t">>>>, <<"CreateChild">>>>,
      <<<<"Normal", <<"Char", "n">>>>, <<"CreateFreeNode">>>>,
      <<<<"Normal", <<"Ctrl", "k">>>>, <<"ExecSelected">>>>,
      <<<<"Normal", <<"Ctrl", "w">>>>, <<"DrillDown">>>>,
      <<<<"Normal", <<"Ctrl", "q">>>>, <<"PopUp">>>>,
      <<<<"Normal", <<"Char", "f">>>>, <<"PrefixJump">>>>,
      <<<<"Normal", <<"Ctrl", "a">>>>, <<"ToggleCompleted">>>>,
      <<<<"Normal", <<"Ctrl", "h">>>>, <<"ToggleHideCompleted">>>>,
      <<<<"Normal", <<"Ctrl", "r">>>>, <<"Arrow">>>>,
      <<<<"Normal", <<"Ctrl", "p">>>>, <<"AutoArrange">>>>,
      <<<<"Normal", <<"Char", " ">>>>, <<"ToggleCollapsed">>>>,
      <<<<"Normal", <<"Ctrl", "c">>>>, <<"Quit">>>>,
      <<<<"Normal", <<"Ctrl", "x">>>>, <<"Save">>>>,
      <<<<"Normal", <<"Ctrl", "l">>>>, <<"ToggleShowLogs">>>>,
      <<<<"Normal", <<"Char", ":">>>>, <<"EnterCmd">>>>,
      <<<<"Normal", <<"Ctrl", "v">>>>, <<"FindTask">>>>,
      <<<<"Normal", <<"Char", "y">>>>, <<"YankPasteNode">>>>,
      <<<<"Normal", <<"Char", "K">>>>, <<"RaiseSelected">>>>,
      <<<<"Normal", <<"Char", "J">>>>, <<"LowerSelected">>>>,
      <<<<"Normal", <<"Char", "/">>>>, <<"Search">>>>,
      <<<<"Normal", <<"Char", "u">>>>, <<"UndoDelete">>>>,
      <<<<"Normal", <<"Ctrl", "?">>>>, <<"Help">>>>,
      <<<<"Normal", <<"Alt", "P">>>>, <<"SelectParent">>>>,
      <<<<"Normal", <<"Ctrl", "n">>>>, <<"SelectNextSibling">>>>,
      <<<<"Normal", <<"Ctrl", "p">>>>, <<"SelectPrevSibling">>>>>>

default == from(default_list)

\* ---------------------------------------------------- Config::parse_keyfile
Ok(v) == <<"Ok", v>>
Err(e) == <<"Err", e>>
Panic == <<"Panic">>

\* variant of parse_lines: line_num counts only the lines that are not skipped
RECURSIVE parse_lines_count_kept(_, _, _)
parse_lines_count_kept(ls, i, cfg) ==
    IF i > Len(ls) THEN Ok(cfg)
    ELSE LET line == ls[i] IN
         IF is_empty(line) \/ starts_with(line, <<"#">>)
         THEN parse_lines_count_kept(ls, i + 1, cfg)
         ELSE LET line_num ==
                      Cardinality({j \in 1..i :
                          ~(is_empty(ls[j]) \/ starts_with(ls[j], <<"#">>))})
                  split == splitn(2, line, ":")
                  parts == [j \in 1..Len(split) |-> trim(split[j])]
              IN  IF Len(parts) # 2 THEN Err(<<"NoColon", line_num>>)
                  ELSE IF to_key(parts[2]) = None \/ to_action(parts[1]) = None
                       THEN Err(<<"Invalid", line_num, line>>)
                       ELSE Panic

\* variant of parse_lines: the line is rejected only when both tokens fail
\* (&& for ||), so the unwrap() of the one that failed panics
RECURSIVE parse_lines_both_none(_, _, _)
parse_lines_both_none(ls, i, cfg) ==
    IF i > Len(ls) THEN Ok(cfg)
    ELSE LET line == ls[i] IN
         IF is_empty(line) \/ starts_with(line, <<"#">>)
         THEN parse_lines_both_none(ls, i + 1, cfg)
         ELSE LET line_num == (i - 1) + 1
                  split == splitn(2, line, ":")
                  parts == [j \in 1..Len(split) |-> trim(split[j])]
              IN  IF Len(parts) # 2 THEN Err(<<"NoColon", line_num>>)
                  ELSE IF to_key(parts[2]) = None /\ to_action(parts[1]) = None
                       THEN Err(<<"Invalid", line_num, line>>)
                       ELSE Panic

\* the for loop over buf.lines().enumerate(), from the i-th line on
RECURSIVE parse_lines(_, _, _)
parse_lines(ls, i, cfg) ==
    IF i > Len(ls) THEN Ok(cfg)
    ELSE LET line == ls[i] IN
         IF is_empty(line) \/ starts_with(line, <<"#">>)
         THEN parse_lines(ls, i + 1, cfg)
         ELSE LET line_num == (i - 1) + 1
                  split == splitn(2, line, ":")
                  parts == [j \in 1..Len(split) |-> trim(split[j])]
              IN  IF Len(parts) # 2 THEN Err(<<"NoColon", line_num>>)
                  ELSE LET raw_action == parts[1]
                           raw_key == parts[2]
                           key_opt == to_key(raw_key)
                           action_opt == to_action(raw_action)
                       IN  IF key_opt = None \/ action_opt = None
                           THEN Err(<<"Invalid", line_num, line>>)
                           ELSE Panic

parse_keyfile(can_read, text) ==
    IF ~can_read THEN Err(<<"Io">>)
    ELSE parse_lines(lines(text), 1, default)

maybe_parsed_from_env(kf, can_read, text) ==
    IF kf # None THEN parse_keyfile(can_read, text) ELSE Ok(default)

\* variants of map
\* an unbound plain character yields no action
map_char_dropped(table, e, m) ==
    CASE e[1] = "Key" -> get(table, <<m, e[2]>>)
      [] e[1] = "Mouse" /\ e[2][1] = "Press" /\ e[2][2] = "Right" ->
            Some(<<"RightClick", e[2][3], e[2][4]>>)
      [] e[1] = "Mouse" /\ e[2][1] = "Press" /\ e[2][2] # "Right" ->
            Some(<<"LeftClick", e[2][3], e[2][4]>>)
      [] e[1] = "Mouse" /\ e[2][1] = "Release" ->
            Some(<<"Release", e[2][2], e[2][3]>>)
      [] OTHER -> None

\* the Char arm also takes Ctrl-modified characters
map_ctrl_as_char(table, e, m) ==
    CASE e[1] = "Key" /\ e[2][1] \in {"Char", "Ctrl"} ->
            IF get(table, <<m, e[2]>>) # None
            THEN get(table, <<m, e[2]>>)
            ELSE Some(<<"Char", m, e[2][2]>>)
      [] e[1] = "Mouse" /\ e[2][1] = "Press" /\ e[2][2] = "Right" ->
            Some(<<"RightClick", e[2][3], e[2][4]>>)
      [] e[1] = "Mouse" /\ e[2][1] = "Press" /\ e[2][2] # "Right" ->
            Some(<<"LeftClick", e[2][3], e[2][4]>>)
      [] e[1] = "Mouse" /\ e[2][1] = "Release" ->
            Some(<<"Release", e[2][2], e[2][3]>>)
      [] e[1] = "Key" -> get(table, <<m, e[2]>>)
      [] OTHER -> None

\* the catch-all Press arm comes before the Right arm
map_press_any_left(table, e, m) ==
    CASE e[1] = "Key" /\ e[2][1] = "Char" ->
            IF get(table, <<m, e[2]>>) # None
            THEN get(table, <<m, e[2]>>)
            ELSE Some(<<"Char", m, e[2][2]>>)
      [] e[1] = "Mouse" /\ e[2][1] = "Press" ->
            Some(<<"LeftClick", e[2][3], e[2][4]>>)
      [] e[1] = "Mouse" /\ e[2][1] = "Release" ->
            Some(<<"Release", e[2][2], e[2][3]>>)
      [] e[1] = "Key" /\ e[2][1] # "Char" -> get(table, <<m, e[2]>>)
      [] OTHER -> None

\* the arm of the other keys is missing, they reach the catch-all arm
map_no_key_arm(table, e, m) ==
    CASE e[1] = "Key" /\ e[2][1] = "Char" ->
            IF get(table, <<m, e[2]>>) # None
            THEN get(table, <<m, e[2]>>)
            ELSE Some(<<"Char", m, e[2][2]>>)
      [] e[1] = "Mouse" /\ e[2][1] = "Press" /\ e[2][2] = "Right" ->
            Some(<<"RightClick", e[2][3], e[2][4]>>)
      [] e[1] = "Mouse" /\ e[2][1] = "Press" /\ e[2][2] # "Right" ->
            Some(<<"LeftClick", e[2][3], e[2][4]>>)
      [] e[1] = "Mouse" /\ e[2][1] = "Release" ->
            Some(<<"Release", e[2][2], e[2][3]>>)
      [] OTHER -> None

\* ------------------------------------------------------------ Config::map
map(table, e, m) ==
    CASE e[1] = "Key" /\ e[2][1] = "Char" ->
            IF get(table, <<m, e[2]>>) # None
            THEN get(table, <<m, e[2]>>)
            ELSE Some(<<"Char", m, e[2][2]>>)
      [] e[1] = "Mouse" /\ e[2][1] = "Press" /\ e[2][2] = "Right" ->
            Some(<<"RightClick", e[2][3], e[2][4]>>)
      [] e[1] = "Mouse" /\ e[2][1] = "Press" /\ e[2][2] # "Right" ->
            Some(<<"LeftClick", e[2][3], e[2][4]>>)
      [] e[1] = "Mouse" /\ e[2][1] = "Release" ->
            Some(<<"Release", e[2][2], e[2][3]>>)
      [] e[1] = "Mouse" /\ e[2][1] = "Hold" -> None
      [] e[1] = "Key" /\ e[2][1] # "Char" -> get(table, <<m, e[2]>>)
      [] OTHER -> None

\* ------------------------------------------------------------------ inputs
\* lines an override file is made of
InputLines ==
    { <<>>,
      <<"#", "c", "o", "m", "m", "e", "n", "t">>,
      <<"q", "u", "i", "t", ":", " ", "C", "-", "c">>,
      <<"s", "a", "v", "e", ":", " ", "C", "-", "x">>,
      <<"q", "u", "i", "t", " ", "C", "-", "c">>,
      <<"b", "o", "g", "u", "s", "_", "a", "c", "t", "i", "o", "n", ":", " ", "k">>,
      <<"q", "u", "i", "t", ":", " ", ":">>,
      <<"q", "u", "i", "t", ":", " ", "C", "-", ":">>,
      <<"q", "u", "i", "t", ":", " ", "a", ":", "b">>,
      <<"q", ":", "u", "i", "t", ":", "k">>,
      <<"q", "u", "i", "t", ":", " ", "C", "-">>,
      <<"Q", "u", "i", "t", ":", " ", "k">>,
      <<" ", "e", "r", "a", "s", "e", "\t", ":", " ", "b", "a", "c", "k", "s", "p", "a", "c", "e", " ">>,
      <<" ", "#", "x">>,
      <<" ">> }

RECURSIVE join(_, _)
join(ls, eol) ==
    IF Len(ls) = 0 THEN <<>>
    ELSE IF Len(ls) = 1 THEN ls[1]
    ELSE ls[1] \o eol \o join(Tail(ls), eol)

Eols == {<<LF>>, <<CR, LF>>}

\* the text of a file of the lines ls, with or without a final line end
file_text(ls, eol, final) ==
    join(ls, eol) \o (IF final THEN eol ELSE <<>>)

KeyChars == {"z", ":"}

Keys ==
    {default_list[i][1][2] : i \in 1..Len(default_list)}
    \cup {<<"Char", c>> : c \in KeyChars}
    \cup {<<"Ctrl", c>> : c \in KeyChars}
    \cup {<<"Alt", c>> : c \in KeyChars}
    \cup {<<"F", n>> : n \in 1..MaxF}
    \cup {<<"Home">>, <<"Null">>}

Coords == {4, 10}

MouseButtons == {"Left", "Right", "Middle", "WheelUp", "WheelDown"}

MouseEvents ==
    {<<"Press", b, x, y>> : b \in MouseButtons, x \in Coords, y \in Coords}
    \cup {<<"Release", x, y>> : x \in Coords, y \in Coords}
    \cup {<<"Hold", x, y>> : x \in Coords, y \in Coords}

Events ==
    {<<"Key", k>> : k \in Keys}
    \cup {<<"Mouse", me>> : me \in MouseEvents}
    \cup {<<"Unsupported">>}

\* ----------------------------------------------------------- state machine
NoCall == <<"NoCall">>
Pending == <<"Pending">>

Init ==
    /\ \/ keyfile = None /\ readable = FALSE /\ buf = <<>>
       \/ keyfile = Some(<<"p">>) /\ readable = FALSE /\ buf = <<>>
       \/ /\ keyfile = Some(<<"p">>)
          /\ readable = TRUE
          /\ \E n \in 0..MaxLines : \E ls \in [1..n -> InputLines] :
                \E eol \in Eols, final \in BOOLEAN :
                    buf = file_text(ls, eol, final)
    /\ result = Pending
    /\ config = {}
    /\ event = NoCall
    /\ mode = NoCall
    /\ ret = NoCall

\* startup: Config::maybe_parsed_from_env() and everything it calls
Construct ==
    /\ result = Pending
    /\ LET r == maybe_parsed_from_env(keyfile, readable, buf)
       IN  /\ result' = IF r[1] = "Ok" THEN <<"Ok">> ELSE r
           /\ config' = IF r[1] = "Ok" THEN r[2] ELSE {}
    /\ UNCHANGED <<keyfile, readable, buf, event, mode, ret>>

\* variant of Map: the lookup takes the entry out of the table (remove for get)
MapTake(e, m) ==
    /\ result = <<"Ok">>
    /\ event' = e
    /\ mode' = m
    /\ ret' = map(config, e, m)
    /\ config' = IF e[1] = "Key" THEN {en \in config : en[1] # <<m, e[2]>>}
                 ELSE config
    /\ UNCHANGED <<keyfile, readable, buf, result>>

\* one call config.map(e, m) of the host's event loop
Map(e, m) ==
    /\ result = <<"Ok">>
    /\ event' = e
    /\ mode' = m
    /\ ret' = map(config, e, m)
    /\ UNCHANGED <<keyfile, readable, buf, result, config>>

Next ==
    \/ Construct
    \/ \E e \in Events, m \in Modes : Map(e, m)

Spec == Init /\ [][Next]_vars

\* ===================================================================
\* Properties
\* ===================================================================
\* the vocabulary of the properties; fl stands for the lines of the file
FromFile == result # Pending /\ keyfile # None /\ readable

Skipped(line) == Len(line) = 0 \/ line[1] = "#"

Significant(fl) == {i \in 1..Len(fl) : ~Skipped(fl[i])}

IsFirstSignificant(fl, i) ==
    ~Skipped(fl[i]) /\ \A j \in 1..(i - 1) : Skipped(fl[j])

ColonCount(line) == Cardinality({j \in 1..Len(line) : line[j] = ":"})

ActionToken(line) == trim(SubSeq(line, 1, find(line, ":") - 1))

KeyToken(line) == trim(SubSeq(line, find(line, ":") + 1, Len(line)))

Resolves(line) ==
    /\ ColonCount(line) >= 1
    /\ to_action(ActionToken(line)) # None
    /\ to_key(KeyToken(line)) # None

Entries(table, k) == {en \in table : en[1] = k}

LastInDefaults(i) ==
    \A j \in (i + 1)..Len(default_list) :
        default_list[j][1] # default_list[i][1]

\* C1: when every non-blank, non-comment line of the override text resolves,
\* construction succeeds and the table maps (Normal, parsed key) to the parsed
\* action of each such line (the last line wins among lines of the same key).
C1_OverridesMerged ==
    LET fl == lines(buf) IN
    (FromFile /\ \A i \in Significant(fl) : Resolves(fl[i]))
    => /\ result = <<"Ok">>
       /\ \A i \in Significant(fl) :
            (\A j \in Significant(fl) :
                j > i => KeyToken(fl[j]) # KeyToken(fl[i]))
            => get(config, <<"Normal", to_key(KeyToken(fl[i]))[2]>>)
               = to_action(ActionToken(fl[i]))

\* C2 (as stated): with no override file, a key event for the pair of any
\* entry of the default list returns Some of that entry's action.
C2_EveryDefaultEntryResolves ==
    (keyfile = None /\ event # NoCall /\ event[1] = "Key")
    => \A i \in 1..Len(default_list) :
          default_list[i][1] = <<mode, event[2]>>
          => ret = Some(default_list[i][2])

\* C2 (amended): with no override file, a key event for the pair of a default
\* list entry that no later list entry repeats returns Some of its action.
C2_LastDefaultEntryResolves ==
    (keyfile = None /\ event # NoCall /\ event[1] = "Key")
    => \A i \in 1..Len(default_list) :
          (default_list[i][1] = <<mode, event[2]>> /\ LastInDefaults(i))
          => ret = Some(default_list[i][2])

C2_Witness ==
    /\ keyfile = None
    /\ event = <<"Key", <<"Esc">>>>
    /\ mode = "Insert"
    /\ ret = Some(<<"Mode", "Normal">>)

\* C3: a plain character key with no table entry for (mode, Char(c)) resolves
\* to Some(Action::Char(mode, c)); a plain character never resolves to None.
C3_UnboundCharFallsThrough ==
    (event # NoCall /\ event[1] = "Key" /\ event[2][1] = "Char")
    => /\ ret # None
       /\ Entries(config, <<mode, event[2]>>) = {}
          => ret = Some(<<"Char", mode, event[2][2]>>)

C3_Witness ==
    /\ event = <<"Key", <<"Char", "i">>>>
    /\ mode = "Insert"
    /\ Entries(config, <<"Insert", <<"Char", "i">>>>) = {}
    /\ ret = Some(<<"Char", "Insert", "i">>)

\* C4: a key that is not a plain character resolves to the action bound to
\* (mode, key) when the table has the entry and to None when it has not.
C4_OtherKeyLookupOrNone ==
    (event # NoCall /\ event[1] = "Key" /\ event[2][1] # "Char")
    => IF Entries(config, <<mode, event[2]>>) = {}
       THEN ret = None
       ELSE \E en \in Entries(config, <<mode, event[2]>>) : ret = Some(en[2])

C4_Witness ==
    /\ event = <<"Key", <<"Ctrl", "c">>>>
    /\ mode = "Insert"
    /\ Entries(config, <<"Insert", <<"Ctrl", "c">>>>) = {}
    /\ ret = None

\* C5: the result for a mouse event is fixed by the event alone: a press of
\* the right button gives RightClick(x, y), a press of any other button
\* LeftClick(x, y), a release Release(x, y), a hold None.
C5_MouseByEventOnly ==
    (event # NoCall /\ event[1] = "Mouse")
    => LET me == event[2] IN
       /\ (me[1] = "Press" /\ me[2] = "Right")
          => ret = Some(<<"RightClick", me[3], me[4]>>)
       /\ (me[1] = "Press" /\ me[2] # "Right")
          => ret = Some(<<"LeftClick", me[3], me[4]>>)
       /\ me[1] = "Release" => ret = Some(<<"Release", me[2], me[3]>>)
       /\ me[1] = "Hold" => ret = None

C5_Witness ==
    /\ event = <<"Mouse", <<"Press", "Right", 10, 4>>>>
    /\ mode = "Insert"
    /\ ret = Some(<<"RightClick", 10, 4>>)

C9_MapLeavesTable ==
    [][result = <<"Ok">>
       => /\ config' = config
          /\ (event' = event /\ mode' = mode) => ret' = ret]_vars

C9_Witness ==
    /\ result = <<"Ok">>
    /\ event = <<"Key", <<"Ctrl", "p">>>>
    /\ mode = "Normal"
    /\ ret = Some(<<"SelectPrevSibling">>)
    /\ Entries(config, <<"Normal", <<"Ctrl", "p">>>>) # {}

\* C10: the default table holds one entry per (mode, key) pair of the default
\* list, with the action of the last list entry for the pair, and nothing
\* else; (Normal, Ctrl('p')) is bound to SelectPrevSibling, not AutoArrange.
C10_DefaultsLastWriteWins ==
    (result = <<"Ok">> /\ keyfile = None)
    => /\ \A i \in 1..Len(default_list) :
            Entries(config, default_list[i][1]) =
                {default_list[CHOOSE j \in i..Len(default_list) :
                    /\ default_list[j][1] = default_list[i][1]
                    /\ LastInDefaults(j)]}
       /\ \A en \in config :
            \E i \in 1..Len(default_list) : default_list[i][1] = en[1]
       /\ Entries(config, <<"Normal", <<"Ctrl", "p">>>>) =
            {<<<<"Normal", <<"Ctrl", "p">>>>, <<"SelectPrevSibling">>>>}

C10_Witness ==
    /\ result = <<"Ok">>
    /\ keyfile = None
    /\ <<<<"Normal", <<"Ctrl", "p">>>>, <<"SelectPrevSibling">>>> \in config
    /\ <<<<"Normal", <<"Ctrl", "p">>>>, <<"AutoArrange">>>> \notin config

====
